---------------------------- MODULE Spec2Model ----------------------------
(***************************************************************************)
(* VuaChuyenHang Pro (src/app.py): the order handlers (create_order,       *)
(* update_order, delete_order, order_pdf, track_page), the customer        *)
(* handlers they join with, and the receipt renderer generate_order_pdf.   *)
(*                                                                         *)
(* Python and SQLite values are tagged records: None (Python None, SQL     *)
(* NULL), Str(s), IntVal(n), and the floats Fin(n), PosInf, NegInf, NaN.   *)
(* Finite floats are the integer-valued ones: the literals of the input    *)
(* pools are integer literals, whose sums are exact in IEEE-754 doubles.   *)
(***************************************************************************)
EXTENDS Integers, Sequences, FiniteSets, TLC

(***************************************************************************)
(* Bounds of the model.                                                    *)
(***************************************************************************)
\* orders ever inserted (AUTOINCREMENT ids 1..MaxOrders)
MaxOrders == 2
\* customers ever inserted
MaxCustomers == 1
\* distinct outcomes of the random draw behind uuid.uuid4()
MaxRand == 2
\* update_order requests in flight at once
MaxClients == 2

(***************************************************************************)
(* Python values.                                                          *)
(***************************************************************************)
None == [t |-> "None"]
Str(s) == [t |-> "str", s |-> s]
IntVal(n) == [t |-> "int", n |-> n]
Fin(n) == [t |-> "float", k |-> "fin", n |-> n]
PosInf == [t |-> "float", k |-> "inf", n |-> 1]
NegInf == [t |-> "float", k |-> "inf", n |-> -1]
NaN == [t |-> "float", k |-> "nan", n |-> 0]

\* bool(v): None, "" and 0.0 are false; every other value (nan too) is true
Truthy(v) ==
  CASE v.t = "None" -> FALSE
    [] v.t = "str" -> v.s # ""
    [] v.t = "int" -> v.n # 0
    [] v.t = "float" -> ~(v.k = "fin" /\ v.n = 0)

\* a or b
Or(a, b) == IF Truthy(a) THEN a ELSE b

(***************************************************************************)
(* Text helpers.                                                           *)
(***************************************************************************)
Char(s, i) == SubSeq(s, i, i)

DigitChars == {"0", "1", "2", "3", "4", "5", "6", "7", "8", "9"}

DigitVal(c) ==
  CASE c = "0" -> 0 [] c = "1" -> 1 [] c = "2" -> 2 [] c = "3" -> 3
    [] c = "4" -> 4 [] c = "5" -> 5 [] c = "6" -> 6 [] c = "7" -> 7
    [] c = "8" -> 8 [] c = "9" -> 9

\* str.strip(): leading and trailing whitespace removed
RECURSIVE Strip(_)
Strip(s) ==
  IF s = "" THEN s
  ELSE IF Char(s, 1) = " " THEN Strip(SubSeq(s, 2, Len(s)))
  ELSE IF Char(s, Len(s)) = " " THEN Strip(SubSeq(s, 1, Len(s) - 1))
  ELSE s

\* str.lower() on the letters of "inf", "infinity" and "nan"
LowerChar(c) ==
  CASE c = "I" -> "i" [] c = "N" -> "n" [] c = "F" -> "f" [] c = "T" -> "t"
    [] c = "Y" -> "y" [] c = "A" -> "a" [] OTHER -> c

RECURSIVE Lower(_)
Lower(s) == IF s = "" THEN "" ELSE LowerChar(Char(s, 1)) \o Lower(SubSeq(s, 2, Len(s)))

\* str.upper() on the hexadecimal letters
UpperChar(c) ==
  CASE c = "a" -> "A" [] c = "b" -> "B" [] c = "c" -> "C" [] c = "d" -> "D"
    [] c = "e" -> "E" [] c = "f" -> "F" [] OTHER -> c

RECURSIVE Upper(_)
Upper(s) == IF s = "" THEN "" ELSE UpperChar(Char(s, 1)) \o Upper(SubSeq(s, 2, Len(s)))

\* the digits of a literal: digits, single underscores allowed between them
IsDigits(b) ==
  /\ b # ""
  /\ Char(b, 1) \in DigitChars
  /\ Char(b, Len(b)) \in DigitChars
  /\ \A i \in 1..Len(b) : Char(b, i) \in DigitChars \cup {"_"}
  /\ \A i \in 1..(Len(b) - 1) : ~(Char(b, i) = "_" /\ Char(b, i + 1) = "_")

RECURSIVE DigitsValue(_, _)
DigitsValue(b, acc) ==
  IF b = "" THEN acc
  ELSE IF Char(b, 1) = "_" THEN DigitsValue(SubSeq(b, 2, Len(b)), acc)
  ELSE DigitsValue(SubSeq(b, 2, Len(b)), 10 * acc + DigitVal(Char(b, 1)))

\* a literal without its sign, and the sign
Unsigned(u) == IF u # "" /\ Char(u, 1) \in {"+", "-"} THEN SubSeq(u, 2, Len(u)) ELSE u
SignOf(u) == IF u # "" /\ Char(u, 1) = "-" THEN -1 ELSE 1

RECURSIVE AllZeros(_)
AllZeros(s) == s = "" \/ (Char(s, 1) = "0" /\ AllZeros(SubSeq(s, 2, Len(s))))

\* the place of the first "." of s, 0 when there is none
RECURSIVE Find(_, _, _)
Find(s, c, i) ==
  IF i > Len(s) THEN 0 ELSE IF Char(s, i) = c THEN i ELSE Find(s, c, i + 1)

(***************************************************************************)
(* int(x) and float(x): the value, or the exception raised.                *)
(***************************************************************************)
Value(v) == [ok |-> TRUE, v |-> v]
Raise(e) == [ok |-> FALSE, exc |-> e]

\* int(x) for x None or a str
PyInt(x) ==
  IF x.t = "None" THEN Raise("TypeError")
  ELSE LET u == Strip(x.s)
           b == Unsigned(u)
       IN IF IsDigits(b) THEN Value(IntVal(SignOf(u) * DigitsValue(b, 0)))
          ELSE Raise("ValueError")

\* float(x) for x None or a str; decimal literals are the integer-valued ones
\* ("5", "5.", "5.00"): a fraction or an exponent is outside the float domain
PyFloat(x) ==
  IF x.t = "None" THEN Raise("TypeError")
  ELSE LET u == Strip(x.s)
           b == Lower(Unsigned(u))
           dot == Find(b, ".", 1)
           whole == IF dot = 0 THEN b ELSE SubSeq(b, 1, dot - 1)
           frac == IF dot = 0 THEN "" ELSE SubSeq(b, dot + 1, Len(b))
       IN IF b \in {"inf", "infinity"} THEN
            Value(IF SignOf(u) = 1 THEN PosInf ELSE NegInf)
          ELSE IF b = "nan" THEN Value(NaN)
          ELSE IF IsDigits(whole) /\ AllZeros(frac) THEN
            Value(Fin(SignOf(u) * DigitsValue(whole, 0)))
          ELSE Raise("ValueError")

\* try: float(x) except (TypeError, ValueError): 0.0
FloatOrZero(x) == IF PyFloat(x).ok THEN PyFloat(x).v ELSE Fin(0)

\* a + b on floats
FAdd(a, b) ==
  IF a.k = "nan" \/ b.k = "nan" THEN NaN
  ELSE IF a.k = "inf" /\ b.k = "inf" THEN (IF a.n = b.n THEN a ELSE NaN)
  ELSE IF a.k = "inf" THEN a
  ELSE IF b.k = "inf" THEN b
  ELSE Fin(a.n + b.n)

\* a == b on Python values: nan equals nothing, None only None
PyEq(a, b) ==
  IF a.t = "float" /\ b.t = "float" THEN a.k # "nan" /\ b.k # "nan" /\ a = b
  ELSE a = b

\* str(v), as an f-string formats it
RECURSIVE NatStr(_)
NatStr(n) ==
  IF n < 10 THEN Char("0123456789", n + 1)
  ELSE NatStr(n \div 10) \o Char("0123456789", (n % 10) + 1)

PyStr(v) ==
  CASE v.t = "None" -> "None"
    [] v.t = "str" -> v.s
    [] v.t = "int" -> (IF v.n < 0 THEN "-" \o NatStr(-v.n) ELSE NatStr(v.n))
    [] v.t = "float" ->
         IF v.k = "nan" THEN "nan"
         ELSE IF v.k = "inf" THEN (IF v.n = 1 THEN "inf" ELSE "-inf")
         ELSE (IF v.n < 0 THEN "-" \o NatStr(-v.n) ELSE NatStr(v.n)) \o ".0"

(***************************************************************************)
(* SQLite: a bound NaN is stored as NULL; every other value reads back as  *)
(* it was bound.                                                           *)
(***************************************************************************)
SqlBind(v) == IF v.t = "float" /\ v.k = "nan" THEN None ELSE v

(***************************************************************************)
(* uuid.uuid4() and the tracking number cut from it.                       *)
(***************************************************************************)
RECURSIVE Hex(_, _)
Hex(n, width) ==
  IF width = 0 THEN ""
  ELSE Hex(n \div 16, width - 1) \o Char("0123456789abcdef", (n % 16) + 1)

\* the first 32 bits of the r-th outcome of the random draw
RandomWord(r) == 11259375 + r * 48271

\* str(uuid.uuid4()): 8-4-4-4-12 lower-case hexadecimal digits
Uuid4Str(r) == Hex(RandomWord(r), 8) \o "-5e1f-4c2b-9a3d-" \o Hex(r, 12)

\* s.split("-")[0]
FirstSegment(s) ==
  LET dash == Find(s, "-", 1) IN IF dash = 0 THEN s ELSE SubSeq(s, 1, dash - 1)

TrackingNumber(r) == Upper(FirstSegment(Uuid4Str(r)))

(***************************************************************************)
(* The submitted forms. A form maps each key to the submitted text, None   *)
(* for a key the request does not carry (form.get(key) is None).           *)
(***************************************************************************)
NoForm ==
  [sender_id |-> None, receiver_name |-> None, receiver_address |-> None,
   receiver_phone |-> None, exchange_rate |-> None, amount |-> None,
   fee |-> None, send_date |-> None, status |-> None, total |-> None,
   tracking_number |-> None]

\* sender_id "1" and every other field omitted
FormOmitted == [NoForm EXCEPT !.sender_id = Str("1")]

\* every field present and blank
FormBlank ==
  [sender_id |-> Str(" 1 "), receiver_name |-> Str(""), receiver_address |-> Str(""),
   receiver_phone |-> Str(""), exchange_rate |-> Str(""), amount |-> Str(""),
   fee |-> Str(""), send_date |-> Str(""), status |-> Str(""), total |-> Str(""),
   tracking_number |-> Str("")]

\* every field filled, with a total and a tracking_number key besides
FormFull ==
  [sender_id |-> Str("1"), receiver_name |-> Str("Ba Tran"),
   receiver_address |-> Str("12 Le Loi"), receiver_phone |-> Str("0901"),
   exchange_rate |-> Str("2"), amount |-> Str("100"), fee |-> Str("5"),
   send_date |-> Str("2024-05-01"), status |-> Str("Done"), total |-> Str("999"),
   tracking_number |-> Str("FFFFFFFF")]

\* forms whose sender_id is missing or is no integer literal
BadSenderForms ==
  {[FormFull EXCEPT !.sender_id = None],
   [FormFull EXCEPT !.sender_id = Str("abc")],
   [FormOmitted EXCEPT !.sender_id = Str("1.5")]}

CoreForms == {FormOmitted, FormBlank, FormFull} \cup BadSenderForms

\* forms with amount, fee or exchange_rate malformed or not finite
NumericForms ==
  {[FormOmitted EXCEPT !.amount = Str("abc"), !.fee = Str("5"), !.exchange_rate = Str("2")],
   [FormOmitted EXCEPT !.amount = Str("100"), !.exchange_rate = Str("2,5")],
   [FormOmitted EXCEPT !.amount = Str("nan"), !.fee = Str("5")],
   [FormOmitted EXCEPT !.amount = Str("inf"), !.fee = Str("-inf"), !.total = Str("0")]}

AllForms == CoreForms \cup NumericForms

\* the customer forms
NoCustomerForm ==
  [name |-> None, driver_license |-> None, birth_date |-> None, address |-> None,
   phone |-> None]

CustomerFormFull ==
  [name |-> Str("Anh Nguyen"), driver_license |-> Str("D123"),
   birth_date |-> Str("1990-01-01"), address |-> Str("1 Tran Phu"),
   phone |-> Str("0902")]

CustomerForms == {NoCustomerForm, CustomerFormFull}

(***************************************************************************)
(* The state: the two SQLite tables with their AUTOINCREMENT counters, and *)
(* the response to the last request.                                       *)
(***************************************************************************)
VARIABLES
  customers,        \* customers table: id -> row
  nextCustomerId,   \* the id the next customer INSERT gets
  orders,           \* orders table: id -> row
  nextOrderId,      \* the id the next order INSERT gets
  resp,             \* the last request handled and its outcome
  pc,               \* generate_order_pdf: where the call stands ("idle": no call)
  font_title,       \* generate_order_pdf: the three fonts (None: not yet bound)
  font_section,
  font,
  y,                \* generate_order_pdf: the vertical cursor
  stmt,             \* generate_order_pdf: the next statement of the layout
  canvas,           \* generate_order_pdf: what was drawn, in order
  updates,          \* update_order: each request in flight, where it stands
  writer            \* the request whose connection holds SQLite's write lock (0: none)

storeVars == <<customers, nextCustomerId, orders, nextOrderId>>
renderVars == <<pc, font_title, font_section, font, y, stmt, canvas>>
flightVars == <<updates, writer>>

Clients == 1..MaxClients

\* a request not yet made: no order id, no form, nothing written
IdleCall == [pc |-> "idle", id |-> 0, form |-> None, txn |-> None]

\* no update_order between its statements
NoneInFlight ==
  /\ updates = [c \in Clients |-> IdleCall]
  /\ writer = 0

OrderIds == 1..MaxOrders
CustomerIds == 1..MaxCustomers

\* a request and its answer: op the handler; id and form the order id and
\* the form an order request came with (0, None: none); outcome "302"
\* (redirect), "200", "404" or the exception raised; row the record handed
\* to the renderer or to the template (None: none)
Response(op, id, form, outcome, row) ==
  [op |-> op, id |-> id, form |-> form, outcome |-> outcome, row |-> row]

\* no call of generate_order_pdf under way
RenderIdle ==
  /\ pc = "idle"
  /\ font_title = None
  /\ font_section = None
  /\ font = None
  /\ y = 0
  /\ stmt = 0
  /\ canvas = <<>>

Init ==
  /\ customers = <<>>
  /\ nextCustomerId = 1
  /\ orders = <<>>
  /\ nextOrderId = 1
  /\ resp = Response("startup", 0, None, "200", None)
  /\ RenderIdle
  /\ NoneInFlight

\* table with the row of id added or replaced
Put(table, id, row) == [i \in DOMAIN table \cup {id} |-> IF i = id THEN row ELSE table[i]]

\* table without the row of id
Remove(table, id) == [i \in DOMAIN table \ {id} |-> table[i]]

(***************************************************************************)
(* Customer handlers.                                                      *)
(***************************************************************************)
\* the row create_customer and update_customer write
CustomerRow(form) ==
  [name |-> Or(form.name, Str("")),
   driver_license |-> Or(form.driver_license, None),
   birth_date |-> Or(form.birth_date, None),
   address |-> Or(form.address, None),
   phone |-> Or(form.phone, None)]

create_customer(form) ==
  /\ nextCustomerId <= MaxCustomers
  /\ customers' = Put(customers, nextCustomerId, CustomerRow(form))
  /\ nextCustomerId' = nextCustomerId + 1
  /\ resp' = Response("create_customer", 0, None, "302", None)
  /\ UNCHANGED <<orders, nextOrderId>>
  /\ UNCHANGED renderVars
  /\ UNCHANGED flightVars

update_customer(customer_id, form) ==
  /\ customers' = IF customer_id \in DOMAIN customers
                  THEN Put(customers, customer_id, CustomerRow(form))
                  ELSE customers
  /\ resp' = Response("update_customer", 0, None, "302", None)
  /\ UNCHANGED <<nextCustomerId, orders, nextOrderId>>
  /\ UNCHANGED renderVars
  /\ UNCHANGED flightVars

delete_customer(customer_id) ==
  /\ customers' = Remove(customers, customer_id)
  /\ resp' = Response("delete_customer", 0, None, "302", None)
  /\ UNCHANGED <<nextCustomerId, orders, nextOrderId>>
  /\ UNCHANGED renderVars
  /\ UNCHANGED flightVars

(***************************************************************************)
(* Order handlers.                                                         *)
(***************************************************************************)
\* a sender_id parsed the way the numeric fields are: 0 when int() raises
SenderIdOrZero(form) ==
  IF PyInt(form.sender_id).ok THEN PyInt(form.sender_id) ELSE Value(IntVal(0))

\* int(form.get("sender_id"))
SenderId(form) == PyInt(form.sender_id)

\* status = "New"
NewStatus(form) == Str("New")

\* status = form.get("status", "New"): the default for a missing key only
EditStatusKeyDefault(form) == IF form.status = None THEN Str("New") ELSE form.status

\* status = form.get("status") or "New"
EditStatus(form) == Or(form.status, Str("New"))

\* total = amount + fee
Total(amount, fee) == FAdd(amount, fee)

\* the columns both create_order and update_order derive from the form, as
\* SQLite stores them
FormColumns(form) ==
  [sender_id |-> SenderId(form).v,
   receiver_name |-> Or(form.receiver_name, Str("")),
   receiver_address |-> Or(form.receiver_address, Str("")),
   receiver_phone |-> Or(form.receiver_phone, Str("")),
   exchange_rate |-> SqlBind(FloatOrZero(form.exchange_rate)),
   amount |-> SqlBind(FloatOrZero(form.amount)),
   fee |-> SqlBind(FloatOrZero(form.fee)),
   total |-> SqlBind(Total(FloatOrZero(form.amount), FloatOrZero(form.fee))),
   send_date |-> Or(form.send_date, Str(""))]

WithStatus(cols, tracking_number, status) ==
  [sender_id |-> cols.sender_id, receiver_name |-> cols.receiver_name,
   receiver_address |-> cols.receiver_address, receiver_phone |-> cols.receiver_phone,
   exchange_rate |-> cols.exchange_rate, amount |-> cols.amount, fee |-> cols.fee,
   total |-> cols.total, send_date |-> cols.send_date,
   tracking_number |-> tracking_number, status |-> status]

\* the row create_order inserts; r is the outcome of the random draw
NewOrderRow(form, r) == WithStatus(FormColumns(form), Str(TrackingNumber(r)), NewStatus(form))

\* an UPDATE that sets tracking_number too, from the form when it has one
EditedOrderRowWithTracking(existing, form) ==
  WithStatus(FormColumns(form), Or(form.tracking_number, existing.tracking_number),
             EditStatus(form))

\* the row update_order leaves: the UPDATE sets every column but
\* tracking_number
EditedOrderRow(existing, form) ==
  WithStatus(FormColumns(form), existing.tracking_number, EditStatus(form))

create_order(form, r) ==
  /\ IF ~SenderId(form).ok THEN
       /\ resp' = Response("create_order", 0, form, SenderId(form).exc, None)
       /\ UNCHANGED storeVars
     ELSE
       /\ nextOrderId <= MaxOrders
       /\ orders' = Put(orders, nextOrderId, NewOrderRow(form, r))
       /\ nextOrderId' = nextOrderId + 1
       /\ resp' = Response("create_order", 0, form, "302", None)
       /\ UNCHANGED <<customers, nextCustomerId>>
  /\ UNCHANGED renderVars
  /\ UNCHANGED flightVars

update_order(order_id, form) ==
  /\ IF ~SenderId(form).ok THEN
       /\ resp' = Response("update_order", order_id, form, SenderId(form).exc, None)
       /\ UNCHANGED storeVars
     ELSE
       /\ orders' = IF order_id \in DOMAIN orders
                    THEN Put(orders, order_id, EditedOrderRow(orders[order_id], form))
                    ELSE orders
       /\ resp' = Response("update_order", order_id, form, "302", None)
       /\ UNCHANGED <<customers, nextCustomerId, nextOrderId>>
  /\ UNCHANGED renderVars
  /\ UNCHANGED flightVars

delete_order(order_id) ==
  /\ orders' = Remove(orders, order_id)
  /\ resp' = Response("delete_order", order_id, None, "302", None)
  /\ UNCHANGED <<customers, nextCustomerId, nextOrderId>>
  /\ UNCHANGED renderVars
  /\ UNCHANGED flightVars

\* a column of the customer an order's sender_id joins to, NULL without one
SenderColumn(order, column) ==
  IF order.sender_id.n \in DOMAIN customers
  THEN customers[order.sender_id.n][column]
  ELSE None

\* SELECT o.*, c.name AS sender_name, ... FROM orders o LEFT JOIN customers c
\* ... WHERE o.id=?  then fetchone(): the joined row, None without the order
JoinedOrder(order_id) ==
  IF order_id \notin DOMAIN orders THEN None
  ELSE LET o == orders[order_id] IN
    [t |-> "row", id |-> order_id, order |-> o,
     sender_name |-> SenderColumn(o, "name"),
     sender_driver_license |-> SenderColumn(o, "driver_license"),
     sender_birth_date |-> SenderColumn(o, "birth_date"),
     sender_address |-> SenderColumn(o, "address"),
     sender_phone |-> SenderColumn(o, "phone")]

\* order_pdf without its "if not order" check
RowFoundUnchecked(order) == TRUE

\* if not order: a Row has columns, so it is true; None is not
RowFound(order) == order.t # "None"

\* order_pdf up to its call generate_order_pdf(order): the 404, or the 200
\* whose body is rendered from order
OrderPdfLookup(order_id) ==
  /\ LET order == JoinedOrder(order_id) IN
       IF ~RowFound(order)
       THEN resp' = Response("order_pdf", order_id, None, "404", None)
       ELSE resp' = Response("order_pdf", order_id, None, "200", order)
  /\ UNCHANGED storeVars

order_pdf(order_id) ==
  /\ OrderPdfLookup(order_id)
  /\ UNCHANGED renderVars
  /\ UNCHANGED flightVars

\* the rows WHERE o.tracking_number = ? selects
TrackMatches(number) == {id \in DOMAIN orders : orders[id].tracking_number = number}

\* fetchone() takes one of the selected rows; the query fixes no order
track_page(number) ==
  /\ IF Truthy(number) /\ TrackMatches(number) # {}
     THEN \E id \in TrackMatches(number) :
            resp' = Response("track_page", 0, None, "200",
                             [t |-> "row", id |-> id, order |-> orders[id],
                              sender_name |-> SenderColumn(orders[id], "name")])
     ELSE resp' = Response("track_page", 0, None, "200", None)
  /\ UNCHANGED storeVars
  /\ UNCHANGED renderVars
  /\ UNCHANGED flightVars

(***************************************************************************)
(* The requests.                                                           *)
(***************************************************************************)
\* the texts a tracking lookup is made with
TrackTexts == {None, Str("")} \cup {Str(TrackingNumber(r)) : r \in 0..(MaxRand - 1)}

CustomerRequests ==
  \/ \E form \in CustomerForms : create_customer(form)
  \/ \E id \in CustomerIds, form \in CustomerForms : update_customer(id, form)
  \/ \E id \in CustomerIds : delete_customer(id)

ReadRequests ==
  \/ \E id \in OrderIds : order_pdf(id)
  \/ \E number \in TrackTexts : track_page(number)

OrderRequests(forms) ==
  \/ \E form \in forms, r \in 0..(MaxRand - 1) : create_order(form, r)
  \/ \E id \in OrderIds, form \in forms : update_order(id, form)
  \/ \E id \in OrderIds : delete_order(id)

vars ==
  <<customers, nextCustomerId, orders, nextOrderId, resp,
    pc, font_title, font_section, font, y, stmt, canvas, updates, writer>>

\* the whole application, over every form; order_pdf's call of
\* generate_order_pdf is followed step by step in RenderSpec
Next == OrderRequests(AllForms) \/ CustomerRequests \/ ReadRequests

Spec == Init /\ [][Next]_vars

\* the order handlers alone, over the core forms
OrderNext == OrderRequests(CoreForms) \/ ReadRequests

OrderSpec == Init /\ [][OrderNext]_vars

(***************************************************************************)
(* generate_order_pdf(order), statement by statement. The argument is the  *)
(* row of order_pdf's response, resp.row.                                  *)
(***************************************************************************)
dpi == 200
width_in == 4
height_in == 6
width_px == width_in * dpi
height_px == height_in * dpi
\* y = 20
StartY == 20
line_spacing == 28
\* y += 15 after the rule, y += 10 after a section
RuleGap == 15
SectionGap == 10

TrueType(file, size) == [t |-> "font", file |-> file, size |-> size]
\* ImageFont.load_default()
DefaultFont == [t |-> "font", file |-> "default", size |-> 0]

TitleFont == TrueType("DejaVuSans-Bold.ttf", 32)
SectionFont == TrueType("DejaVuSans-Bold.ttf", 24)
BodyFont == TrueType("DejaVuSans.ttf", 20)

\* the widths draw.textlength may report for a text (Pillow's measure: the
\* width under a truetype font, or under the built-in one)
TextWidths == {102, 408}

\* the statements of the layout: draw_text calls, the rule, cursor skips
TextCall(x, text, role, align) ==
  [op |-> "draw_text", x |-> x, text |-> text, role |-> role, align |-> align]
LineCall == [op |-> "draw.line"]
SkipCall(dy) == [op |-> "skip", dy |-> dy]

Layout(order) ==
  << TextCall(0, "VUACHUYENHANG.COM", "font_title", "center"),
     LineCall,
     SkipCall(RuleGap),
     TextCall(40, "Tracking: " \o PyStr(order.order.tracking_number), "font", "left"),
     TextCall(40, "Date: " \o PyStr(order.order.send_date), "font", "left"),
     SkipCall(SectionGap),
     TextCall(40, "Sender", "font_section", "left"),
     TextCall(60, "Name: " \o PyStr(order.sender_name), "font", "left"),
     TextCall(60, "License: " \o PyStr(Or(order.sender_driver_license, Str(""))), "font", "left"),
     TextCall(60, "Birth: " \o PyStr(Or(order.sender_birth_date, Str(""))), "font", "left"),
     TextCall(60, "Address: " \o PyStr(Or(order.sender_address, Str(""))), "font", "left"),
     TextCall(60, "Phone: " \o PyStr(Or(order.sender_phone, Str(""))), "font", "left"),
     SkipCall(SectionGap),
     TextCall(40, "Receiver", "font_section", "left"),
     TextCall(60, "Name: " \o PyStr(order.order.receiver_name), "font", "left"),
     TextCall(60, "Address: " \o PyStr(order.order.receiver_address), "font", "left"),
     TextCall(60, "Phone: " \o PyStr(order.order.receiver_phone), "font", "left"),
     SkipCall(SectionGap),
     TextCall(40, "Details", "font_section", "left"),
     TextCall(60, "Exchange rate: " \o PyStr(order.order.exchange_rate), "font", "left"),
     TextCall(60, "Amount: " \o PyStr(order.order.amount), "font", "left"),
     TextCall(60, "Fee: " \o PyStr(order.order.fee), "font", "left"),
     TextCall(60, "Total: " \o PyStr(order.order.total), "font", "left"),
     TextCall(60, "Status: " \o PyStr(order.order.status), "font", "left") >>

\* the font object a statement names
FontOf(role) ==
  CASE role = "font_title" -> font_title
    [] role = "font_section" -> font_section
    [] role = "font" -> font

\* y = 20; line_spacing = 28: the layout starts
StartLayout ==
  /\ y' = StartY
  /\ stmt' = 1
  /\ pc' = "layout"
  /\ UNCHANGED canvas

\* a fallback that rebinds the body font alone
FontFallbackBodyOnly ==
  /\ font' = DefaultFont
  /\ UNCHANGED <<font_title, font_section>>
  /\ StartLayout

\* except Exception: font_title = font_section = font = ImageFont.load_default()
FontFallback ==
  /\ font_title' = DefaultFont
  /\ font_section' = DefaultFont
  /\ font' = DefaultFont
  /\ StartLayout

\* order_pdf called with the renderer idle: the lookup, then the call
RenderRequest(order_id) ==
  /\ pc = "idle"
  /\ OrderPdfLookup(order_id)
  /\ IF RowFound(JoinedOrder(order_id))
     THEN /\ pc' = "load_title"
          /\ UNCHANGED <<font_title, font_section, font, y, stmt, canvas>>
     ELSE UNCHANGED renderVars
  /\ UNCHANGED flightVars

\* font_title = ImageFont.truetype(bold, 32), or the load raises
LoadTitleFont ==
  /\ pc = "load_title"
  /\ \/ /\ font_title' = TitleFont
        /\ pc' = "load_section"
        /\ UNCHANGED <<font_section, font, y, stmt, canvas>>
     \/ FontFallback
  /\ UNCHANGED <<flightVars, storeVars, resp>>

\* font_section = ImageFont.truetype(bold, 24), or the load raises
LoadSectionFont ==
  /\ pc = "load_section"
  /\ \/ /\ font_section' = SectionFont
        /\ pc' = "load_body"
        /\ UNCHANGED <<font_title, font, y, stmt, canvas>>
     \/ FontFallback
  /\ UNCHANGED <<flightVars, storeVars, resp>>

\* font = ImageFont.truetype(regular, 20), or the load raises
LoadBodyFont ==
  /\ pc = "load_body"
  /\ \/ /\ font' = BodyFont
        /\ StartLayout
        /\ UNCHANGED <<font_title, font_section>>
     \/ FontFallback
  /\ UNCHANGED <<flightVars, storeVars, resp>>

\* x_pos of draw_text, for each width textlength may report
XPositions(x, align) ==
  CASE align = "center" -> {(width_px - w) \div 2 : w \in TextWidths}
    [] align = "right" -> {width_px - x - w : w \in TextWidths}
    [] OTHER -> {x}

\* a draw_text that advances the cursor in its left-aligned branch alone
draw_text_left_advance(x, text, font_obj, align) ==
  /\ \E x_pos \in XPositions(x, align) :
       canvas' = Append(canvas, [op |-> "text", x |-> x_pos, y |-> y, text |-> text,
                                 font |-> font_obj, align |-> align])
  /\ y' = IF align = "left" THEN y + line_spacing ELSE y

\* draw_text(x, text, font_obj, align): the text at (x_pos, y), then
\* y += line_spacing
draw_text(x, text, font_obj, align) ==
  /\ \E x_pos \in XPositions(x, align) :
       canvas' = Append(canvas, [op |-> "text", x |-> x_pos, y |-> y, text |-> text,
                                 font |-> font_obj, align |-> align])
  /\ y' = y + line_spacing

\* the next statement of the layout is a draw_text call
DrawTextStep ==
  /\ pc = "layout"
  /\ stmt <= Len(Layout(resp.row))
  /\ LET call == Layout(resp.row)[stmt] IN
       /\ call.op = "draw_text"
       /\ draw_text(call.x, call.text, FontOf(call.role), call.align)
  /\ stmt' = stmt + 1
  /\ UNCHANGED <<flightVars, storeVars, resp, pc, font_title, font_section, font>>

\* draw.line((40, y, width_px - 40, y), fill="black", width=2)
DrawLineStep ==
  /\ pc = "layout"
  /\ stmt <= Len(Layout(resp.row))
  /\ Layout(resp.row)[stmt].op = "draw.line"
  /\ canvas' = Append(canvas, [op |-> "line", x |-> 40, y |-> y, x2 |-> width_px - 40])
  /\ stmt' = stmt + 1
  /\ UNCHANGED <<flightVars, storeVars, resp, pc, font_title, font_section, font, y>>

\* y += 15, y += 10
SkipStep ==
  /\ pc = "layout"
  /\ stmt <= Len(Layout(resp.row))
  /\ Layout(resp.row)[stmt].op = "skip"
  /\ y' = y + Layout(resp.row)[stmt].dy
  /\ stmt' = stmt + 1
  /\ UNCHANGED <<flightVars, storeVars, resp, pc, font_title, font_section, font, canvas>>

\* img.save(buf, format="PDF", resolution=dpi)
SavePdf ==
  /\ pc = "layout"
  /\ stmt = Len(Layout(resp.row)) + 1
  /\ pc' = "done"
  /\ UNCHANGED <<flightVars, storeVars, resp, font_title, font_section, font, y, stmt, canvas>>

\* return buf.getvalue(): the call is over
ReturnPdf ==
  /\ pc = "done"
  /\ pc' = "idle"
  /\ font_title' = None
  /\ font_section' = None
  /\ font' = None
  /\ y' = 0
  /\ stmt' = 0
  /\ canvas' = <<>>
  /\ UNCHANGED <<flightVars, storeVars, resp>>

\* the rows create_order and update_order can have written
ValidForms == {form \in AllForms : SenderId(form).ok}

StoredRows ==
  {NewOrderRow(form, r) : form \in ValidForms, r \in 0..(MaxRand - 1)}
    \cup {EditedOrderRow(NewOrderRow(FormOmitted, 0), FormFull)}

\* the stores order_pdf is asked about: at most one order, its sender
\* absent (deleted, or never created) or present
RenderInit ==
  /\ customers \in {<<>>} \cup {(1 :> CustomerRow(form)) : form \in CustomerForms}
  /\ nextCustomerId \in {1, 2}
  /\ customers # <<>> => nextCustomerId = 2
  /\ orders \in {<<>>} \cup {(1 :> row) : row \in StoredRows}
  /\ nextOrderId \in {1, 2}
  /\ orders # <<>> => nextOrderId = 2
  /\ resp = Response("startup", 0, None, "200", None)
  /\ RenderIdle
  /\ NoneInFlight

RenderNext ==
  \/ \E id \in OrderIds : RenderRequest(id)
  \/ LoadTitleFont
  \/ LoadSectionFont
  \/ LoadBodyFont
  \/ DrawTextStep
  \/ DrawLineStep
  \/ SkipStep
  \/ SavePdf
  \/ ReturnPdf

RenderSpec == RenderInit /\ [][RenderNext]_vars

(***************************************************************************)
(* update_order, statement by statement, for requests served at once (by   *)
(* worker processes, or by coroutines suspended in await). Each request    *)
(* has its own locals and its own connection (get_db opens a new one);     *)
(* what the requests share is the database file. The UPDATE runs in the    *)
(* transaction sqlite3 opens before it and takes the write lock; its row   *)
(* is the connection's own until conn.commit(). Readers see what is        *)
(* committed.                                                              *)
(***************************************************************************)
\* form = await request.form(): the request arrives with its form
AwaitForm(c, order_id, form) ==
  /\ updates[c].pc = "idle"
  /\ updates' = [updates EXCEPT ![c] = [pc |-> "form", id |-> order_id, form |-> form,
                                        txn |-> None]]
  /\ UNCHANGED <<storeVars, resp, writer>>
  /\ UNCHANGED renderVars

\* sender_id = int(...) to total = amount + fee: the locals, or int() raises
\* and the request ends
DeriveFields(c) ==
  /\ updates[c].pc = "form"
  /\ IF ~SenderId(updates[c].form).ok THEN
       /\ updates' = [updates EXCEPT ![c].pc = "done"]
       /\ resp' = Response("update_order", updates[c].id, updates[c].form,
                           SenderId(updates[c].form).exc, None)
     ELSE
       /\ updates' = [updates EXCEPT ![c].pc = "derived"]
       /\ UNCHANGED resp
  /\ UNCHANGED <<storeVars, writer>>
  /\ UNCHANGED renderVars

\* conn = get_db(); conn.execute("UPDATE orders SET ... WHERE id=?"): one
\* statement, under the write lock, on the row as it is committed
ExecuteUpdate(c) ==
  /\ updates[c].pc = "derived"
  /\ writer = 0
  /\ writer' = c
  /\ updates' = [updates EXCEPT
       ![c].pc = "executed",
       ![c].txn = IF updates[c].id \in DOMAIN orders
                  THEN EditedOrderRow(orders[updates[c].id], updates[c].form)
                  ELSE None]
  /\ UNCHANGED <<storeVars, resp>>
  /\ UNCHANGED renderVars

\* conn.execute while another connection holds the write lock past the busy
\* timeout: sqlite3.OperationalError (database is locked), nothing written
LockTimeout(c) ==
  /\ updates[c].pc = "derived"
  /\ writer \notin {0, c}
  /\ updates' = [updates EXCEPT ![c].pc = "done"]
  /\ resp' = Response("update_order", updates[c].id, updates[c].form,
                      "OperationalError", None)
  /\ UNCHANGED <<storeVars, writer>>
  /\ UNCHANGED renderVars

\* conn.commit(); conn.close(); return RedirectResponse("/orders", 302)
CommitUpdate(c) ==
  /\ updates[c].pc = "executed"
  /\ writer = c
  /\ orders' = IF updates[c].txn # None
               THEN Put(orders, updates[c].id, updates[c].txn)
               ELSE orders
  /\ writer' = 0
  /\ updates' = [updates EXCEPT ![c].pc = "done"]
  /\ resp' = Response("update_order", updates[c].id, updates[c].form, "302", None)
  /\ UNCHANGED <<customers, nextCustomerId, nextOrderId>>
  /\ UNCHANGED renderVars

\* the forms the requests in flight carry
FlightForms ==
  {FormFull, FormBlank,
   [FormFull EXCEPT !.sender_id = Str("abc")],
   [FormOmitted EXCEPT !.amount = Str("nan"), !.fee = Str("5")]}

\* the order the requests in flight edit, as create_order wrote it
FirstOrder == NewOrderRow([FormFull EXCEPT !.amount = Str("7")], 0)

\* one stored order, its sender present or not, and no request yet
FlightInit ==
  /\ customers \in {<<>>, (1 :> CustomerRow(CustomerFormFull))}
  /\ nextCustomerId = 2
  /\ orders = (1 :> FirstOrder)
  /\ nextOrderId = 2
  /\ resp = Response("create_order", 0, [FormFull EXCEPT !.amount = Str("7")], "302", None)
  /\ RenderIdle
  /\ NoneInFlight

FlightNext ==
  \/ \E c \in Clients, id \in OrderIds, form \in FlightForms : AwaitForm(c, id, form)
  \/ \E c \in Clients : DeriveFields(c)
  \/ \E c \in Clients : ExecuteUpdate(c)
  \/ \E c \in Clients : LockTimeout(c)
  \/ \E c \in Clients : CommitUpdate(c)
  \/ ReadRequests

FlightSpec == FlightInit /\ [][FlightNext]_vars

(***************************************************************************)
(* The claims.                                                             *)
(***************************************************************************)
NumericKeys == {"exchange_rate", "amount", "fee"}

\* the exceptions int() raises, which the spec calls InvalidInput
InvalidInput == {"TypeError", "ValueError"}

\* a sender_id that is missing or is no integer literal
MissingOrNonNumeric(x) ==
  \/ x = None
  \/ \A i \in 1..Len(x.s) : Char(x.s, i) \notin DigitChars
  \/ \E i \in 1..Len(x.s) : Char(x.s, i) \notin DigitChars \cup {" ", "+", "-", "_"}

\* total == amount + fee, as Python compares the three columns of a row
RowTotalMatches(row) ==
  /\ row.amount.t = "float"
  /\ row.fee.t = "float"
  /\ PyEq(row.total, FAdd(row.amount, row.fee))

\* C1: every stored order satisfies total == amount + fee on the amount and
\* fee of the same row, whatever forms were submitted (a total key in the
\* form changes nothing).
C1_TotalIsAmountPlusFee == \A id \in DOMAIN orders : RowTotalMatches(orders[id])

\* C2: an order's tracking_number is assigned once, by create_order, to a
\* row with a fresh id, and no later request changes it while the order
\* exists, whatever the form carries.
C2_TrackingNumberImmutable ==
  [][/\ \A id \in DOMAIN orders \cap DOMAIN orders' :
          orders'[id].tracking_number = orders[id].tracking_number
     /\ \A id \in DOMAIN orders' \ DOMAIN orders :
          /\ resp'.op = "create_order"
          /\ id = nextOrderId
          /\ nextOrderId' = id + 1
     /\ nextOrderId' >= nextOrderId]_vars

\* an update carrying a tracking_number key (FormFull alone sets "Done")
\* has acted on an order, whose tracking number is not the submitted one
C2_Witness ==
  /\ resp.op = "update_order"
  /\ resp.outcome = "302"
  /\ \E id \in DOMAIN orders :
       /\ orders[id].status = Str("Done")
       /\ orders[id].tracking_number # FormFull.tracking_number

\* 8 characters of the upper-case hexadecimal alphabet
IsTrackingFormat(x) ==
  /\ x.t = "str"
  /\ Len(x.s) = 8
  /\ \A i \in 1..Len(x.s) : Char(x.s, i) \in DigitChars \cup {"A", "B", "C", "D", "E", "F"}

\* C3: no two stored orders share a tracking_number, and every
\* tracking_number is 8 upper-case hexadecimal characters.
C3_TrackingNumbersDistinct ==
  /\ \A id \in DOMAIN orders : IsTrackingFormat(orders[id].tracking_number)
  /\ \A i, j \in DOMAIN orders :
       i # j => orders[i].tracking_number # orders[j].tracking_number

\* C4: create_order and update_order with a missing or non-numeric
\* sender_id raise InvalidInput whatever the other fields hold, and leave
\* both tables as they were.
C4_BadSenderFailsBeforeWrite ==
  [][(/\ resp'.op \in {"create_order", "update_order"}
      /\ MissingOrNonNumeric(resp'.form.sender_id))
       => (resp'.outcome \in InvalidInput /\ UNCHANGED storeVars)]_vars

\* an update with a bad sender_id and the other fields filled was refused
\* while an order is stored
C4_Witness ==
  /\ resp.op = "update_order"
  /\ MissingOrNonNumeric(resp.form.sender_id)
  /\ resp.form.amount = Str("100")
  /\ resp.id \in DOMAIN orders

\* what the claim expects stored for a numeric field: 0.0 when float()
\* rejects the input, the parsed number otherwise
ExpectedNumber(x) == IF PyFloat(x).ok THEN PyFloat(x).v ELSE Fin(0)

\* the row a create_order or update_order request has just written
WrittenRow ==
  IF resp.op = "create_order" THEN orders[nextOrderId - 1] ELSE orders[resp.id]

\* a create_order or update_order request (of a stored order) whose
\* sender_id is an integer literal
ValidOrderWrite ==
  /\ resp.op \in {"create_order", "update_order"}
  /\ resp.op = "update_order" => resp.id \in DOMAIN orders
  /\ ~MissingOrNonNumeric(resp.form.sender_id)

\* C5: with a valid sender_id, create_order and update_order write a row in
\* which each of exchange_rate, amount and fee is 0.0 when its own input is
\* missing, empty or non-numeric and its own parsed number otherwise; no
\* malformed numeric input makes them fail.
C5_NumericFieldsIndependent ==
  ValidOrderWrite =>
    /\ resp.outcome = "302"
    /\ \A k \in NumericKeys : PyEq(WrittenRow[k], ExpectedNumber(resp.form[k]))

\* the status the claim as written expects update_order to store
StatusAsGiven(form) == IF form.status = None THEN Str("New") ELSE form.status

\* the status update_order stores: the one given unless missing or empty
StatusUnlessBlank(form) == IF form.status \in {None, Str("")} THEN Str("New") ELSE form.status

\* create_order's row has status "New", and with sender_id "1" alone it is
\* written with empty texts and total 0.0
CreateDefaults ==
  /\ (resp.op = "create_order" /\ resp.outcome = "302") => WrittenRow.status = Str("New")
  /\ (resp.op = "create_order" /\ resp.form = FormOmitted) =>
       /\ resp.outcome = "302"
       /\ WrittenRow.receiver_name = Str("")
       /\ WrittenRow.receiver_address = Str("")
       /\ WrittenRow.receiver_phone = Str("")
       /\ WrittenRow.send_date = Str("")
       /\ WrittenRow.total = Fin(0)

UpdateWritten == resp.op = "update_order" /\ resp.outcome = "302" /\ resp.id \in DOMAIN orders

\* C7 as written: create_order stores status "New" whatever the form says;
\* update_order stores the status the form gives, "New" when the form has
\* no status key; sender_id "1" alone creates an order with empty texts and
\* total 0.0.
C7_StatusAsGiven ==
  /\ CreateDefaults
  /\ UpdateWritten => WrittenRow.status = StatusAsGiven(resp.form)

\* C7 amended: as C7, but update_order stores "New" also when the status
\* given is the empty string.
C7_StatusUnlessBlank ==
  /\ CreateDefaults
  /\ UpdateWritten => WrittenRow.status = StatusUnlessBlank(resp.form)

\* an update whose form gives an empty status has stored "New"
C7_Witness ==
  /\ UpdateWritten
  /\ resp.form.status = Str("")
  /\ WrittenRow.status = Str("New")

\* C9: order_pdf hands the renderer the joined row of the order when the
\* lookup finds one, and otherwise answers 404 and hands it nothing.
C9_RendererNeverGetsNone ==
  resp.op = "order_pdf" =>
    IF resp.id \in DOMAIN orders
    THEN /\ resp.outcome = "200"
         /\ resp.row # None
         /\ resp.row.id = resp.id
         /\ resp.row.order = orders[resp.id]
    ELSE /\ resp.outcome = "404"
         /\ resp.row = None

\* the receipt of an order that was stored and then deleted is asked for
C9_Witness ==
  /\ resp.op = "order_pdf"
  /\ resp.outcome = "404"
  /\ resp.id < nextOrderId

\* the texts on the canvas, in the order they were drawn
Texts(drawn) == SelectSeq(drawn, LAMBDA e : e.op = "text")

\* the draw_text calls among the first n statements of the layout
TextCalls(order, n) == SelectSeq(SubSeq(Layout(order), 1, n), LAMBDA c : c.op = "draw_text")

\* the receipt is complete: all 19 text lines are on the canvas
ReceiptDone == pc = "done" /\ Len(Texts(canvas)) = 19

\* C6: on the finished receipt of a record whose sender field is null, the
\* Sender line of that field is its label followed by nothing.
C6_NullSenderFieldsBlank ==
  ReceiptDone =>
    LET t == Texts(canvas) IN
      /\ resp.row.sender_name = None => t[5].text = "Name: "
      /\ resp.row.sender_driver_license = None => t[6].text = "License: "
      /\ resp.row.sender_birth_date = None => t[7].text = "Birth: "
      /\ resp.row.sender_address = None => t[8].text = "Address: "
      /\ resp.row.sender_phone = None => t[9].text = "Phone: "

\* the truetype font the source loads for a role
LoadedFont(role) ==
  CASE role = "font_title" -> TitleFont
    [] role = "font_section" -> SectionFont
    [] role = "font" -> BodyFont

\* C8: once the fonts are bound they are the three truetype fonts or, after
\* a failed load, the built-in font in all three roles; no load ends the
\* call; and the texts drawn are the texts of the layout's draw_text calls,
\* in order, whichever fonts are bound.
C8_FontFallbackTotal ==
  /\ pc \in {"idle", "load_title", "load_section", "load_body", "layout", "done"}
  /\ pc \in {"layout", "done"} =>
       /\ \/ <<font_title, font_section, font>> = <<TitleFont, SectionFont, BodyFont>>
          \/ <<font_title, font_section, font>> = <<DefaultFont, DefaultFont, DefaultFont>>
       /\ LET drawn == Texts(canvas)
              calls == TextCalls(resp.row, stmt - 1)
          IN  /\ Len(drawn) = Len(calls)
              /\ \A i \in 1..Len(drawn) :
                   /\ drawn[i].text = calls[i].text
                   /\ drawn[i].font \in {LoadedFont(calls[i].role), DefaultFont}
  /\ pc = "done" => Len(Texts(canvas)) = 19

\* a receipt finished in the built-in font
C8_Witness ==
  /\ ReceiptDone
  /\ font_title = DefaultFont
  /\ Texts(canvas)[19].font = DefaultFont

\* the labels of the receipt's lines, top to bottom
LineLabels ==
  << "VUACHUYENHANG.COM", "Tracking: ", "Date: ",
     "Sender", "Name: ", "License: ", "Birth: ", "Address: ", "Phone: ",
     "Receiver", "Name: ", "Address: ", "Phone: ",
     "Details", "Exchange rate: ", "Amount: ", "Fee: ", "Total: ", "Status: " >>

StartsWith(text, label) ==
  Len(text) >= Len(label) /\ SubSeq(text, 1, Len(label)) = label

\* the cursor starts at 20; the lines drawn so far are the first lines of
\* the fixed order, at strictly increasing y inside the 1200 px page
CursorAndLinesInOrder ==
  LET t == Texts(canvas) IN
    /\ (pc = "layout" /\ stmt = 1) => y = 20
    /\ Len(t) <= Len(LineLabels)
    /\ \A i \in 1..Len(t) :
         /\ StartsWith(t[i].text, LineLabels[i])
         /\ t[i].y >= 0 /\ t[i].y < 1200
         /\ i > 1 => t[i - 1].y < t[i].y
    /\ Len(t) >= 1 => t[1].y = 20
    /\ pc = "done" => Len(t) = 19

\* a step that draws a text puts it at the cursor and moves the cursor 28 down
DrawAdvancesCursor ==
  (Len(canvas') = Len(canvas) + 1 /\ canvas'[Len(canvas')].op = "text") =>
    /\ canvas'[Len(canvas')].y = y
    /\ y' = y + 28

\* C10: the cursor starts at 20 px and every draw_text call advances it by
\* 28 px whatever the alignment; the lines are drawn in the fixed order at
\* strictly increasing y positions inside the 1200 px page height.
C10_CursorAdvance == []CursorAndLinesInOrder /\ [][DrawAdvancesCursor]_vars

\* the receipt is complete: the centred title first, the last line at 569
C10_Witness ==
  /\ ReceiptDone
  /\ Texts(canvas)[1].align = "center"
  /\ Texts(canvas)[19].y = 569
  /\ y = 597

\* the row one update_order request derives for the first order: every
\* column from its form, the tracking number the order was created with
RowOfRequest(form) ==
  WithStatus(FormColumns(form), FirstOrder.tracking_number, EditStatus(form))

\* request c has committed its UPDATE of order id
Committed(c, id) ==
  /\ updates[c].pc = "done"
  /\ updates[c].id = id
  /\ updates[c].txn # None

\* row is the order as created, or the row of one committed request
FromOneRequest(id, row) ==
  \/ row = FirstOrder
  \/ \E c \in Clients : Committed(c, id) /\ row = RowOfRequest(updates[c].form)

\* the stored order is at every moment the row of a single request, with
\* the tracking number it was created with
StoredFromOneRequest ==
  \A id \in DOMAIN orders :
    /\ FromOneRequest(id, orders[id])
    /\ orders[id].tracking_number = FirstOrder.tracking_number

\* what order_pdf or track_page read is the row of a single request
ReadFromOneRequest ==
  (resp.op \in {"order_pdf", "track_page"} /\ resp.row # None) =>
    FromOneRequest(resp.row.id, resp.row.order)

\* the last request to commit has left its own row: the last write wins
\* (resp is an update's redirect only until the next request is answered)
LastWriteStored ==
  (resp.op = "update_order" /\ resp.outcome = "302" /\ resp.id \in DOMAIN orders) =>
    orders[resp.id] = RowOfRequest(resp.form)

\* the part of C11 about interleavings alone
UpdatesSerialize == StoredFromOneRequest /\ ReadFromOneRequest /\ LastWriteStored

\* two requests have committed different rows for the same order and a
\* read has seen the order since
TwoCommitted ==
  /\ \E c, d \in Clients :
       /\ c # d
       /\ Committed(c, 1) /\ Committed(d, 1)
       /\ RowOfRequest(updates[c].form) # RowOfRequest(updates[d].form)
  /\ resp.op = "order_pdf" /\ resp.row # None

\* C11: under every interleaving of update_order requests on one order and
\* reads of it, the stored row is field for field the row of exactly one
\* request (the last to commit), every read sees such a row, the tracking
\* number stays the original one, and total == amount + fee holds of the
\* stored row.
C11_ConcurrentUpdatesOneRequest ==
  /\ StoredFromOneRequest
  /\ ReadFromOneRequest
  /\ LastWriteStored
  /\ \A id \in DOMAIN orders : RowTotalMatches(orders[id])

=============================================================================
